---- MODULE Spec2Model ----
(***************************************************************************)
(* A model of the media relay bot: the per-user rate limiter of            *)
(* src/bot.py (check_rate_limit), the URL classifier (extract_video_url),  *)
(* the download chain (download_media, _download_photo_fallback,           *)
(* download_instagram_media) and the message handler that drives them.     *)
(***************************************************************************)
EXTENDS Integers, Sequences, FiniteSets, TLC

(***************************************************************************)
(* Program constants and model bounds.                                     *)
(***************************************************************************)

\* src/bot.py:20 sets REQUEST_LIMIT = 50.  The limiter is parametric in it;
\* the model runs it with a small quota so that a full window is reachable.
REQUEST_LIMIT == 3

\* src/bot.py:21, seconds.
REQUEST_WINDOW == 3600

\* src/bot.py:22, seconds.
COOLDOWN_TIME == 1800

\* The clock is observed up to this second.
MaxNow == 5401

\* The longest message text, in tokens.
MaxTextLen == 6

\* The most files an extractor leaves in the scratch directory.
MaxFiles == 2

\* The telegram user ids that send messages.
Users == {1, 2}

\* The instants (whole seconds of time.time()) at which the clock is read.
\* They hold both sides of every boundary of the limiter: a sub-minute step,
\* a whole minute, the last minute of a cooldown armed at 0, the expiry of
\* cooldowns armed at 0 and 1, the window's edge for requests made at 0 and
\* the seconds after it.
Times == {t \in {0, 1, 60, 1741, 1800, 1801, 3600, 3601, 5401} : t <= MaxNow}

NoCall == [at |-> -1, allowed |-> FALSE, mins |-> -1, prev |-> -1]

VARIABLES
    now,               \* time.time(), whole seconds
    user_timestamps,   \* dict[int, deque]: user id -> request times
    user_cooldowns,    \* dict[int, float]: user id -> cooldown expiry
    granted,           \* history: per user, the times of the Allowed results
    rl_user,           \* history: the user of the latest check_rate_limit call
    rl_last,           \* history: per user, the latest call's time and result
    ncalls,            \* history: per user, calls so far (saturating)
    firstAt,           \* history: per user, the time of the first call
    armedAt,           \* history: per user, when the limit last armed a cooldown
    inQuota,           \* history: per user, blocked on request LIMIT+1 of the
                       \* first window and not allowed since
    text,              \* extract_video_url: the message text
    video_info,        \* extract_video_url: its return value
    dm_pc,             \* download_media: where the call stands
    dm_platform,       \* download_media: its platform argument
    dm_dir,            \* download_media: the files in output_dir
    dm_primary,        \* history: how ydl.extract_info ended in this call
    dm_invoked,        \* history: the strategies this call has invoked, in order
    dm_ret,            \* download_media: its return value
    req,               \* handle_message: per coroutine on the loop, its locals
    scratch,           \* storage: per coroutine, the directory that
                       \* tempfile.TemporaryDirectory() made for its request
    chat,              \* history: per coroutine, what its latest request did
                       \* through the chat transport
    INSTAGRAPI_AVAILABLE,  \* instagram_client.py:30-32
    has_creds,         \* INSTAGRAM_USERNAME and INSTAGRAM_PASSWORD are both set
    ig_client,         \* _instagram_client._client
    ig_logged_in,      \* _instagram_client._logged_in
    session_file,      \* /tmp/instagrapi_session.json exists
    ig_pc,             \* download_instagram_media: per caller, where it stands
    ig_local,          \* InstagramClient.download: per caller, its local `client`
    ig_exc,            \* per caller, the exception being raised
    ig_ret,            \* download_instagram_media: per caller, how the call ended
    ig_login,          \* history: per caller, this call has entered _login()
    ig_invalidated     \* history: reset() has run and _login() has not since

hist == <<rl_user, rl_last, ncalls, firstAt, armedAt, inQuota, granted>>

rlvars == <<now, user_timestamps, user_cooldowns, hist>>

exvars == <<text, video_info>>

dmvars == <<dm_pc, dm_platform, dm_dir, dm_primary, dm_invoked, dm_ret>>

hvars == <<req, scratch, chat>>

igvars ==
    <<INSTAGRAPI_AVAILABLE, has_creds, ig_client, ig_logged_in, session_file,
      ig_pc, ig_local, ig_exc, ig_ret, ig_login, ig_invalidated>>

vars == <<rlvars, exvars, dmvars, hvars, igvars>>

(***************************************************************************)
(* Python dict helpers.                                                    *)
(***************************************************************************)

\* d.get(k, default)
Get(d, k, default) == IF k \in DOMAIN d THEN d[k] ELSE default

\* d[k] = v
Put(d, k, v) == [x \in (DOMAIN d) \cup {k} |-> IF x = k THEN v ELSE d[x]]

(***************************************************************************)
(* extract_video_url, src/bot.py:37-45 and 97-106.                         *)
(*                                                                         *)
(* A text is a sequence of tokens, each a fixed run of characters:         *)
(*   "h"   https            (five word characters)                         *)
(*   "ig"  ://www.instagram.com/reel/                                      *)
(*   "tt"  ://www.tiktok.com/                                              *)
(*   "fb"  ://www.facebook.com/watch?v=                                    *)
(*   "/"   a slash                                                         *)
(*   " "   a whitespace character                                          *)
(* No pattern can begin or end a match inside a token: `https?://` begins  *)
(* only at "h", and each domain token begins with ":" (no word character)  *)
(* and ends with the last character the pattern fixes.                     *)
(***************************************************************************)
Tokens == {"h", "ig", "tt", "fb", "/", " "}

\* Tokens made of characters of [A-Za-z0-9_\-] (also of \w and \d).
WordTokens == {"h"}

\* Tokens made of characters of [^\s].
NonSpaceTokens == Tokens \ {" "}

Texts == UNION {[1..n -> Tokens] : n \in 0..MaxTextLen}

\* Python's None where a match or a (url, platform) pair is expected: no
\* match is empty, so the empty sequence stands for it.
None == <<>>

\* extract_video_url has not been called on the text.
NotRun == <<"not run">>

\* The compiled patterns: the domain each fixes after `https?://`, and whether
\* it ends with the optional `(?:/[^\s]*)?`.
INSTAGRAM_URL_PATTERN == [domain |-> "ig", tail |-> TRUE]

TIKTOK_URL_PATTERN == [domain |-> "tt", tail |-> TRUE]

FACEBOOK_URL_PATTERN == [domain |-> "fb", tail |-> FALSE]

\* The end (exclusive) of the longest run of tokens of `class` from position i:
\* a greedy `[...]*`.
RECURSIVE RunEnd(_, _, _)
RunEnd(t, i, class) ==
    IF i <= Len(t) /\ t[i] \in class THEN RunEnd(t, i + 1, class) ELSE i

\* The end (exclusive) of the pattern's match beginning at position i, or 0
\* when it does not match there: scheme, domain and path prefix, a greedy
\* non-empty run of word characters, then the optional tail.
MatchEnd(pattern, t, i) ==
    IF /\ i + 2 <= Len(t)
       /\ t[i] = "h"
       /\ t[i + 1] = pattern.domain
       /\ t[i + 2] \in WordTokens
    THEN LET e == RunEnd(t, i + 2, WordTokens)
         IN  IF pattern.tail /\ e <= Len(t) /\ t[e] = "/"
             THEN RunEnd(t, e + 1, NonSpaceTokens)
             ELSE e
    ELSE 0

\* pattern.search(text): the match at the leftmost position that has one, as
\* match.group(0); None without a match.
search(pattern, t) ==
    LET starts == {i \in 1..Len(t) : MatchEnd(pattern, t, i) > 0}
    IN  IF starts = {}
        THEN None
        ELSE LET i == CHOOSE j \in starts : \A k \in starts : j <= k
             IN  SubSeq(t, i, MatchEnd(pattern, t, i) - 1)

\* TikTok tried before Instagram.
PatternList_tiktokFirst ==
    << <<TIKTOK_URL_PATTERN, "tiktok">>,
       <<INSTAGRAM_URL_PATTERN, "instagram">>,
       <<FACEBOOK_URL_PATTERN, "facebook">> >>

\* The list the loop of lines 98-102 walks.
PatternList ==
    << <<INSTAGRAM_URL_PATTERN, "instagram">>,
       <<TIKTOK_URL_PATTERN, "tiktok">>,
       <<FACEBOOK_URL_PATTERN, "facebook">> >>

\* The loop of lines 98-106 from the k-th entry on.
RECURSIVE FirstMatch(_, _, _)
FirstMatch(patterns, k, t) ==
    IF k > Len(patterns)
    THEN None
    ELSE LET match == search(patterns[k][1], t)
         IN  IF match # None
             THEN <<match, patterns[k][2]>>
             ELSE FirstMatch(patterns, k + 1, t)

extract_video_url(t) == FirstMatch(PatternList, 1, t)

\* One call of extract_video_url on the text at hand.
Extract ==
    /\ video_info = NotRun
    /\ video_info' = extract_video_url(text)
    /\ UNCHANGED <<text, rlvars, dmvars, hvars, igvars>>

(***************************************************************************)
(* download_media and _download_photo_fallback, src/bot.py:112-293.        *)
(***************************************************************************)
Platforms == {"instagram", "tiktok", "facebook"}

\* bot.py:259-261
valid_video_exts == {".mp4", ".mov", ".mkv", ".webm"}

valid_photo_exts == {".jpg", ".jpeg", ".png", ".webp"}

valid_exts == valid_video_exts \cup valid_photo_exts

\* The files an extractor may leave: named after the post id (the stem of
\* prepare_filename) or otherwise, with a video, a photo or an unrecognized
\* suffix (lower-cased), empty, within the 50 MiB ceiling or over it.
Files ==
    [stem : {"id", "other"}, ext : {".mp4", ".jpg", ".part"},
     size : {"empty", "ok", "over"}]

RECURSIVE SubsetsUpTo(_, _)
SubsetsUpTo(S, n) ==
    IF n = 0
    THEN {{}}
    ELSE LET smaller == SubsetsUpTo(S, n - 1)
         IN  smaller \cup {d \cup {f} : d \in smaller, f \in S}

\* The contents output_dir can have.
Dirs == SubsetsUpTo(Files, MaxFiles)

\* The messages of yt_dlp.utils.DownloadError.
DownloadErrorMessages ==
    {"There is no video in this post", "Private video", "File is larger than max-filesize"}

\* How ydl.extract_info(url, download=True) can end.
ExtractInfoOutcomes ==
    {[kind |-> "info", msg |-> ""], [kind |-> "info_none", msg |-> ""],
     [kind |-> "Exception", msg |-> ""]}
    \cup {[kind |-> "DownloadError", msg |-> m] : m \in DownloadErrorMessages}

\* ydl.extract_info has not returned in this call.
NoOutcome == [kind |-> "none", msg |-> ""]

\* Python's None where a file path is expected.
NoFile == [stem |-> "", ext |-> "", size |-> "none"]

\* download_media has not returned.
NoResult == [path |-> NoFile, media_type |-> "no result"]

\* `return None, "unknown"`
Failure == [path |-> NoFile, media_type |-> "unknown"]

\* Any DownloadError is taken for a photo post.
NoVideoInPost_any(msg) == TRUE

\* `"There is no video in this post" in error_str`
NoVideoInPost(msg) == msg = "There is no video in this post"

\* Every file is taken for a video.
MediaType_video(f) == "video"

\* Lines 267 and 274.
MediaType(f) == IF f.ext \in valid_photo_exts THEN "photo" ELSE "video"

\* Lines 263-278: what the two scans of output_dir can return.  iterdir()
\* yields the files in no fixed order, so the first match is any match.
ResolveResults(dir, base) ==
    LET exact == {f \in dir : f.stem = base /\ f.ext \in valid_exts}
        any   == {f \in dir : f.ext \in valid_exts}
    IN  IF exact # {}
        THEN {[path |-> f, media_type |-> MediaType(f)] : f \in exact}
        ELSE IF any # {}
             THEN {[path |-> f, media_type |-> MediaType(f)] : f \in any}
             ELSE {Failure}

\* Lines 132-139: what the scan of _download_photo_fallback can return.
PhotoResults(dir) ==
    LET photos == {f \in dir : f.ext \in valid_photo_exts}
    IN  IF photos # {}
        THEN {[path |-> f, media_type |-> "photo"] : f \in photos}
        ELSE {Failure}

\* download_media(url, output_dir, platform) is called with a fresh directory.
DmStart(platform) ==
    /\ dm_pc = "idle"
    /\ dm_pc' = "ytdlp"
    /\ dm_platform' = platform
    /\ dm_dir' = {}
    /\ dm_primary' = NoOutcome
    /\ dm_invoked' = <<>>
    /\ dm_ret' = NoResult
    /\ UNCHANGED <<rlvars, exvars, hvars, igvars>>

\* Lines 241-293: the yt-dlp attempt and what follows it at once: the scans
\* of the directory, the failure returns, or the switch to the photo fallback.
DmYtDlp ==
    /\ dm_pc = "ytdlp"
    /\ \E o \in ExtractInfoOutcomes, files \in Dirs :
        /\ dm_invoked' = Append(dm_invoked, "yt-dlp")
        /\ dm_primary' = o
        /\ dm_dir' = files
        /\ IF o.kind = "info"
           THEN /\ dm_ret' \in ResolveResults(files, "id")
                /\ dm_pc' = "done"
           ELSE IF o.kind = "DownloadError" /\ NoVideoInPost(o.msg)
                THEN /\ dm_ret' = dm_ret
                     /\ dm_pc' = "photo"
                ELSE /\ dm_ret' = Failure
                     /\ dm_pc' = "done"
    /\ UNCHANGED <<dm_platform, rlvars, exvars, hvars, igvars>>

\* Lines 112-143: _download_photo_fallback, whose result download_media
\* returns as its own (line 286).
DmPhotoFallback ==
    /\ dm_pc = "photo"
    /\ \E ok \in BOOLEAN, files \in Dirs :
        /\ dm_dir \subseteq files
        /\ dm_invoked' = Append(dm_invoked, "photo fallback")
        /\ dm_dir' = files
        /\ IF ok
           THEN dm_ret' \in PhotoResults(files)
           ELSE dm_ret' = Failure
    /\ dm_pc' = "done"
    /\ UNCHANGED <<dm_platform, dm_primary, rlvars, exvars, hvars, igvars>>

\* The caller takes the result.
DmReturn ==
    /\ dm_pc = "done"
    /\ dm_pc' = "idle"
    /\ UNCHANGED <<dm_platform, dm_dir, dm_primary, dm_invoked, dm_ret, rlvars, exvars, hvars, igvars>>

(***************************************************************************)
(* check_rate_limit, src/bot.py:312-331.                                   *)
(***************************************************************************)

\* A global counter: every user shares one entry.
Key_global(user_id) == 0

\* The key under which a user's state is kept: the user id itself.
Key(user_id) == user_id

\* Re-arms on a boundary request: blocks at the very second the cooldown ends.
InCooldown_le(cooldown, t) == t <= cooldown

\* `now < cooldown`
InCooldown(cooldown, t) == t < cooldown

\* Minutes elapsed since the cooldown was armed, not minutes remaining.
RemainingMinutes_elapsed(cooldown, t) == (t - (cooldown - COOLDOWN_TIME)) \div 60

\* `int((cooldown - now) / 60)`: truncation of a positive quotient.
RemainingMinutes(cooldown, t) == (cooldown - t) \div 60

\* Evicts the timestamp that sits exactly on the window's edge too.
Expired_le(ts, t) == ts <= t - REQUEST_WINDOW

\* `timestamps[0] < now - REQUEST_WINDOW`
Expired(ts, t) == ts < t - REQUEST_WINDOW

\* No timestamp is ever evicted.
EvictExpired_none(q, t) == q

\* `while timestamps and timestamps[0] < now - REQUEST_WINDOW: popleft()`
RECURSIVE EvictExpired(_, _)
EvictExpired(q, t) ==
    IF q # <<>> /\ Expired(Head(q), t) THEN EvictExpired(Tail(q), t) ELSE q

\* Off by one: lets one request more through.
LimitReached_gt(q) == Len(q) > REQUEST_LIMIT

\* `len(timestamps) >= REQUEST_LIMIT`
LimitReached(q) == Len(q) >= REQUEST_LIMIT

\* A blocked request that restarts the cooldown.
CooldownBranch_rearm(user_id) ==
    [allowed    |-> FALSE,
     mins       |-> RemainingMinutes(Get(user_cooldowns, Key(user_id), 0), now),
     armed      |-> FALSE,
     timestamps |-> user_timestamps,
     cooldowns  |-> Put(user_cooldowns, Key(user_id), now + COOLDOWN_TIME)]

\* Lines 316-318: in cooldown, return (False, remaining); nothing is written.
CooldownBranch(user_id) ==
    [allowed    |-> FALSE,
     mins       |-> RemainingMinutes(Get(user_cooldowns, Key(user_id), 0), now),
     armed      |-> FALSE,
     timestamps |-> user_timestamps,
     cooldowns  |-> user_cooldowns]

\* Puts the new timestamp at the front of the queue.
Enqueue_front(q, t) == <<t>> \o q

\* `timestamps.append(now)`
Enqueue(q, t) == Append(q, t)

\* A cooldown that is over as soon as it is armed.
ArmedExpiry_now(t) == t

\* `now + COOLDOWN_TIME`
ArmedExpiry(t) == t + COOLDOWN_TIME

\* A blocked request is counted too.
BlockedQueue_append(q, t) == Append(q, t)

\* Lines 326-328: the blocked return leaves the deque as the eviction left it.
BlockedQueue(q, t) == q

\* Lines 320-331: create the deque if absent, evict, then block and arm the
\* cooldown, or append and allow.
WindowBranch(user_id) ==
    LET timestamps == EvictExpired(Get(user_timestamps, Key(user_id), <<>>), now)
    IN  IF LimitReached(timestamps)
        THEN [allowed    |-> FALSE,
              mins       |-> COOLDOWN_TIME \div 60,
              armed      |-> TRUE,
              timestamps |-> Put(user_timestamps, Key(user_id), BlockedQueue(timestamps, now)),
              cooldowns  |-> Put(user_cooldowns, Key(user_id), ArmedExpiry(now))]
        ELSE [allowed    |-> TRUE,
              mins       |-> 0,
              armed      |-> FALSE,
              timestamps |-> Put(user_timestamps, Key(user_id), Enqueue(timestamps, now)),
              cooldowns  |-> user_cooldowns]

\* The call's return value and the two dicts as it leaves them (armed marks
\* the branch that set the cooldown, for the history variables only).
check_rate_limit(user_id) ==
    IF InCooldown(Get(user_cooldowns, Key(user_id), 0), now)
    THEN CooldownBranch(user_id)
    ELSE WindowBranch(user_id)

\* The bookkeeping of one call: what it returned, to whom, and when.
Record(user_id, r) ==
    /\ rl_user' = user_id
    /\ rl_last' = [rl_last EXCEPT ![user_id] =
                       [at |-> now, allowed |-> r.allowed, mins |-> r.mins,
                        prev |-> rl_last[user_id].at]]
    /\ ncalls' = [ncalls EXCEPT ![user_id] =
                       IF @ < REQUEST_LIMIT + 2 THEN @ + 1 ELSE @]
    /\ firstAt' = [firstAt EXCEPT ![user_id] = IF @ < 0 THEN now ELSE @]
    /\ armedAt' = [armedAt EXCEPT ![user_id] = IF r.armed THEN now ELSE @]
    /\ inQuota' = [inQuota EXCEPT ![user_id] =
                       IF r.allowed THEN FALSE
                       ELSE IF /\ ncalls[user_id] = REQUEST_LIMIT
                               /\ now - firstAt[user_id] <= REQUEST_WINDOW
                            THEN TRUE
                            ELSE @]
    /\ granted' = [granted EXCEPT ![user_id] =
                       IF r.allowed THEN Append(@, now) ELSE @]

\* One call of check_rate_limit(user_id).
CheckRateLimit(user_id) ==
    LET r == check_rate_limit(user_id)
    IN  /\ user_timestamps' = r.timestamps
        /\ user_cooldowns' = r.cooldowns
        /\ Record(user_id, r)
        /\ UNCHANGED <<now, exvars, dmvars, hvars, igvars>>

\* The clock moves on to a later instant.
Tick ==
    /\ \E t \in Times : t > now /\ now' = t
    /\ UNCHANGED <<user_timestamps, user_cooldowns, hist, exvars, dmvars, hvars, igvars>>

(***************************************************************************)
(* handle_message, src/bot.py:337-441, as the coroutines that                *)
(* main.py:59-68 puts on the one event loop (run_async, main.py:29-38).    *)
(* Each webhook call runs process_update, and with it handle_message, as a *)
(* coroutine of that loop: the coroutines interleave at their awaits and   *)
(* nowhere else, so each action below is the code between two awaits.      *)
(***************************************************************************)

\* The coroutines the loop runs at a time.
Handlers == {1, 2}

\* The texts of the messages: an Instagram link, no link.
MessageTexts == {<<"h", "ig", "h">>, <<"h", " ", "h">>}

\* What download_media can hand back: Failure, or a file with a recognized
\* suffix and the media type of that suffix (the handler never looks at the
\* file's name, so one stem stands for all).
DownloadResults ==
    {Failure}
    \cup {[path |-> f, media_type |-> MediaType(f)] :
              f \in {g \in Files : g.ext \in valid_exts /\ g.stem = "id"}}

\* The locals of a coroutine that handles no update.  typing_task is the
\* action of the indicator task the variable names and task is that task (the
\* one created at line 365 or the one created at line 404); live, indicated
\* and beside are history: the indicator tasks created and not cancelled,
\* whether an indicator action went out during the await the handler is
\* suspended at, and whether a download of another coroutine has been running
\* ever since this request was received.
NoRequest ==
    [pc          |-> "idle",
     user_id     |-> 0,
     platform    |-> "",
     typing_task |-> "none",
     task        |-> "none",
     live        |-> {},
     tmp_dir     |-> FALSE,
     media       |-> NoResult,
     notice      |-> "none",
     indicated   |-> FALSE,
     beside      |-> FALSE]

\* What the transport has seen of a request for which nothing was sent: no
\* notice, no send_photo or send_video, the original message in place; url
\* and rate are what extract_video_url and check_rate_limit returned for it.
NoChat ==
    [notice |-> "none", send |-> "none", original |-> "kept",
     url |-> FALSE, rate |-> "none"]

\* cancel() that does nothing.
Cancel_noop(live, task) == live

\* `typing_task.cancel()`: the task the variable names sends no more actions.
Cancel(live, task) == live \ {task}

\* `return` or an exception leaving the function: the finally clause of line
\* 440 cancels the task that typing_task names, and the locals are gone.
Leave(r) == [NoRequest EXCEPT !.live = Cancel(r.live, r.task)]

\* The directory is left on storage when the with block is left.
ExitWith_leak(d) == d

\* TemporaryDirectory.__exit__ (the with block of line 370 is left, by
\* return or by an exception): the directory and its contents are removed.
ExitWith(d) == IF d = "exists" THEN "removed" ELSE d

\* The download of coroutine i is over: no other request has it beside it
\* any longer.
EndDownload(rq, i) ==
    [j \in Handlers |-> IF j # i THEN [rq[j] EXCEPT !.beside = FALSE] ELSE rq[j]]

\* The handler is left from inside or outside the with block.
Exit(i) ==
    /\ req' = IF req[i].pc = "download"
              THEN EndDownload([req EXCEPT ![i] = Leave(@)], i)
              ELSE [req EXCEPT ![i] = Leave(@)]
    /\ scratch' = [scratch EXCEPT ![i] = ExitWith(@)]

\* No file is ever found too large.
TooLarge_never(f) == FALSE

\* `file_size > 50 * 1024 * 1024`, line 390
TooLarge(f) == f.size = "over"

\* The rate limit is not heeded.
Proceeds_always(r) == TRUE

\* Line 349: `if not allowed:` sends the notice and returns.
Proceeds(r) == r.allowed

\* download_media is called on the loop's own thread: while a download runs
\* no coroutine and no task gets a turn.
LoopBusy_inline == \E k \in Handlers : req[k].pc = "download"

\* Lines 371-373: download_media runs in the executor's thread, so the loop
\* is never held up by it.
LoopBusy == FALSE

\* Lines 338-373, up to the first await: classify the text, check the rate
\* limit, then either send the rate notice, or start the indicator task,
\* create the scratch directory and hand download_media to the executor.
HReceive(i, u, t) ==
    /\ ~LoopBusy
    /\ req[i].pc = "idle"
    /\ LET video_info_ == extract_video_url(t)
       IN  IF video_info_ = None
           THEN /\ req' = [req EXCEPT ![i] = Leave(@)]
                /\ scratch' = [scratch EXCEPT ![i] = "none"]
                /\ chat' = [chat EXCEPT ![i] = NoChat]
                /\ UNCHANGED rlvars
           ELSE LET r == check_rate_limit(u)
                IN  /\ user_timestamps' = r.timestamps
                    /\ user_cooldowns' = r.cooldowns
                    /\ Record(u, r)
                    /\ UNCHANGED now
                    /\ req' = [req EXCEPT ![i] =
                          IF Proceeds(r)
                          THEN [NoRequest EXCEPT
                                   !.pc = "download", !.user_id = u,
                                   !.platform = video_info_[2],
                                   !.typing_task = "upload_video",
                                   !.task = "first",
                                   !.live = {"first"},
                                   !.tmp_dir = TRUE,
                                   !.beside = \E k \in Handlers \ {i} :
                                                  req[k].pc = "download"]
                          ELSE [NoRequest EXCEPT
                                   !.pc = "reply", !.user_id = u,
                                   !.platform = video_info_[2],
                                   !.notice = "rate limit"]]
                    /\ scratch' = [scratch EXCEPT ![i] =
                          IF Proceeds(r) THEN "exists" ELSE "none"]
                    /\ chat' = [chat EXCEPT ![i] =
                          [NoChat EXCEPT
                              !.url = TRUE,
                              !.rate = IF r.allowed THEN "allowed" ELSE "blocked",
                              !.notice = IF Proceeds(r) THEN "none" ELSE "rate limit"]]
    /\ UNCHANGED <<exvars, dmvars, igvars>>

\* Lines 371-406: the executor returns download_media's result.  No path, or
\* a file over 50 MiB: send a failure notice.  Otherwise cancel the indicator
\* task, start one for the media type, open the file and send it.
HDownloaded(i, result) ==
    /\ req[i].pc = "download"
    /\ req' = EndDownload([req EXCEPT ![i] =
          IF result.path = NoFile
          THEN [@ EXCEPT !.indicated = FALSE, !.pc = "reply", !.media = result,
                         !.notice = "unavailable"]
          ELSE IF TooLarge(result.path)
               THEN [@ EXCEPT !.indicated = FALSE, !.pc = "reply", !.media = result,
                              !.notice = "too large"]
               ELSE [@ EXCEPT !.indicated = FALSE, !.pc = "send", !.media = result,
                              !.typing_task = IF result.media_type = "video"
                                              THEN "upload_video"
                                              ELSE "upload_photo",
                              !.task = "second",
                              !.live = Cancel(@, req[i].task) \cup {"second"}]], i)
    /\ chat' = [chat EXCEPT ![i].notice = req'[i].notice]
    /\ UNCHANGED <<scratch, rlvars, exvars, dmvars, igvars>>

\* Lines 350, 377, 391, 431: `await message.reply_text(...)` returns, or
\* raises, and then the exception leaves the handler.
HReply(i, ok) ==
    /\ ~LoopBusy
    /\ req[i].pc = "reply"
    /\ IF ok
       THEN /\ req' = [req EXCEPT ![i].pc = "sleep", ![i].indicated = FALSE]
            /\ UNCHANGED scratch
       ELSE Exit(i)
    /\ UNCHANGED <<chat, rlvars, exvars, dmvars, igvars>>

\* `await asyncio.sleep(10)` returns.
HSleep(i) ==
    /\ ~LoopBusy
    /\ req[i].pc = "sleep"
    /\ req' = [req EXCEPT ![i].pc = "delete notice", ![i].indicated = FALSE]
    /\ UNCHANGED <<scratch, chat, rlvars, exvars, dmvars, igvars>>

\* `await err.delete()` returns or raises (swallowed); the handler returns.
HDeleteNotice(i, ok) ==
    /\ ~LoopBusy
    /\ req[i].pc = "delete notice"
    /\ Exit(i)
    /\ UNCHANGED <<chat, rlvars, exvars, dmvars, igvars>>

\* Lines 408-433: send_photo or send_video returns, and the original message
\* is deleted next; or it raises, and the send-failure notice is sent next.
HSend(i, ok) ==
    /\ ~LoopBusy
    /\ req[i].pc = "send"
    /\ req' = [req EXCEPT ![i] =
          IF ok
          THEN [@ EXCEPT !.indicated = FALSE, !.pc = "delete original"]
          ELSE [@ EXCEPT !.indicated = FALSE, !.pc = "reply", !.notice = "send failed"]]
    /\ chat' = [chat EXCEPT ![i] =
          IF ok
          THEN [@ EXCEPT !.send = "ok"]
          ELSE [@ EXCEPT !.send = "failed", !.notice = "send failed"]]
    /\ UNCHANGED <<scratch, rlvars, exvars, dmvars, igvars>>

\* Without the try of line 424: a failed deletion falls to the handler of
\* line 429 and the send-failure notice goes out.
AfterDeleteOriginal_outer(r, ok) ==
    IF ok
    THEN Leave(r)
    ELSE [r EXCEPT !.indicated = FALSE, !.pc = "reply", !.notice = "send failed"]

\* Lines 424-427: whether `await message.delete()` returns or raises (the
\* exception is logged), nothing is left to do and the handler ends.
AfterDeleteOriginal(r, ok) == Leave(r)

\* Lines 424-427: `await message.delete()` returns or raises.
HDeleteOriginal(i, ok) ==
    /\ ~LoopBusy
    /\ req[i].pc = "delete original"
    /\ req' = [req EXCEPT ![i] = AfterDeleteOriginal(@, ok)]
    /\ scratch' = [scratch EXCEPT ![i] =
          IF req'[i].pc = "idle" THEN ExitWith(@) ELSE @]
    /\ chat' = [chat EXCEPT ![i] =
          [@ EXCEPT !.original = IF ok THEN "deleted" ELSE "delete failed",
                    !.notice = req'[i].notice]]
    /\ UNCHANGED <<rlvars, exvars, dmvars, igvars>>

\* The pending await raises asyncio.CancelledError (the handler's task is
\* cancelled): no except clause of handle_message catches it, so the with
\* block and the finally clause run and the exception leaves the handler.
HCancelled(i) ==
    /\ ~LoopBusy
    /\ req[i].pc # "idle"
    /\ Exit(i)
    /\ UNCHANGED <<chat, rlvars, exvars, dmvars, igvars>>

\* Lines 299-306: an indicator task that has not been cancelled sends its
\* chat action while the handler is suspended at an await.
HIndicator(i) ==
    /\ ~LoopBusy
    /\ req[i].live # {}
    /\ req' = [req EXCEPT ![i].indicated = TRUE]
    /\ UNCHANGED <<scratch, chat, rlvars, exvars, dmvars, igvars>>

(***************************************************************************)
(* src/instagram_client.py: InstagramClient, the singleton                 *)
(* _instagram_client and download_instagram_media, called from worker      *)
(* threads.  The threads interleave between the steps below; the client    *)
(* has no lock.                                                            *)
(***************************************************************************)

\* The threads that call download_instagram_media.
Callers == {1, 2}

\* The exceptions the model tells apart: ValueError, an exception whose text
\* contains "login_required", any other Exception.
Exceptions == {"ValueError", "login_required", "other"}

\* How the calls on the instagrapi client (lines 112-136) can end.
ApiOutcomes ==
    {"photo", "video", "album", "empty album", "unknown media_type",
     "login_required", "other"}

\* The three fields of the session together.
session == <<ig_client, ig_logged_in, session_file>>

\* Lines 160-172 and 106-109: the call begins.
IgCall(t) ==
    /\ ig_pc[t] = "idle"
    /\ ig_local' = [ig_local EXCEPT ![t] = "unset"]
    /\ ig_exc' = [ig_exc EXCEPT ![t] = "none"]
    /\ ig_login' = [ig_login EXCEPT ![t] = FALSE]
    /\ IF INSTAGRAPI_AVAILABLE
       THEN /\ ig_pc' = [ig_pc EXCEPT ![t] = "_get_client"]
            /\ ig_ret' = [ig_ret EXCEPT ![t] = "none"]
       ELSE /\ ig_pc' = [ig_pc EXCEPT ![t] = "done"]
            /\ ig_ret' = [ig_ret EXCEPT ![t] = "failure"]
    /\ UNCHANGED <<INSTAGRAPI_AVAILABLE, has_creds, session, ig_invalidated>>
    /\ UNCHANGED <<rlvars, exvars, dmvars, hvars>>

\* Lines 55-58: create the Client if there is none.
IgGetClient(t) ==
    /\ ig_pc[t] = "_get_client"
    /\ ig_client' = IF ig_client = "None" THEN "Client" ELSE ig_client
    /\ ig_pc' = [ig_pc EXCEPT ![t] = "check login"]
    /\ UNCHANGED <<INSTAGRAPI_AVAILABLE, has_creds, ig_logged_in, session_file,
                   ig_local, ig_exc, ig_ret, ig_login, ig_invalidated>>
    /\ UNCHANGED <<rlvars, exvars, dmvars, hvars>>

\* Lines 60-61: `if not self._logged_in: self._login()`
IgCheckLogin(t) ==
    /\ ig_pc[t] = "check login"
    /\ ig_pc' = [ig_pc EXCEPT ![t] =
          IF ig_logged_in THEN "return client" ELSE "_login"]
    /\ UNCHANGED <<INSTAGRAPI_AVAILABLE, has_creds, session,
                   ig_local, ig_exc, ig_ret, ig_login, ig_invalidated>>
    /\ UNCHANGED <<rlvars, exvars, dmvars, hvars>>

\* Lines 65-78: _login begins: ValueError without credentials, else the
\* restore from the session file if there is one, else the fresh login.
IgLogin(t) ==
    /\ ig_pc[t] = "_login"
    /\ ig_invalidated' = FALSE
    /\ ig_login' = [ig_login EXCEPT ![t] = TRUE]
    /\ IF ~has_creds
       THEN /\ ig_exc' = [ig_exc EXCEPT ![t] = "ValueError"]
            /\ ig_pc' = [ig_pc EXCEPT ![t] = "except ValueError"]
       ELSE /\ ig_exc' = ig_exc
            /\ ig_pc' = [ig_pc EXCEPT ![t] =
                  IF session_file THEN "restore" ELSE "fresh login"]
    /\ UNCHANGED <<INSTAGRAPI_AVAILABLE, has_creds, session, ig_local, ig_ret>>
    /\ UNCHANGED <<rlvars, exvars, dmvars, hvars>>

\* Lines 79-86: load_settings and login with the restored session; any
\* exception (self._client being None included) leads to the fresh login.
IgRestore(t, ok) ==
    /\ ig_pc[t] = "restore"
    /\ IF ig_client = "Client" /\ ok
       THEN /\ ig_logged_in' = TRUE
            /\ ig_pc' = [ig_pc EXCEPT ![t] = "return client"]
       ELSE /\ ig_logged_in' = ig_logged_in
            /\ ig_pc' = [ig_pc EXCEPT ![t] = "fresh login"]
    /\ UNCHANGED <<INSTAGRAPI_AVAILABLE, has_creds, ig_client, session_file,
                   ig_local, ig_exc, ig_ret, ig_login, ig_invalidated>>
    /\ UNCHANGED <<rlvars, exvars, dmvars, hvars>>

\* Line 89: self._client.login(username, password); it raises if the login
\* is refused, or if self._client is None by now.
IgFreshLogin(t, ok) ==
    /\ ig_pc[t] = "fresh login"
    /\ IF ig_client = "Client" /\ ok
       THEN /\ ig_exc' = ig_exc
            /\ ig_pc' = [ig_pc EXCEPT ![t] = "dump_settings"]
       ELSE /\ ig_exc' = [ig_exc EXCEPT ![t] = "other"]
            /\ ig_pc' = [ig_pc EXCEPT ![t] = "except Exception"]
    /\ UNCHANGED <<INSTAGRAPI_AVAILABLE, has_creds, session,
                   ig_local, ig_ret, ig_login, ig_invalidated>>
    /\ UNCHANGED <<rlvars, exvars, dmvars, hvars>>

\* Lines 90-92: write the session file and set the flag; AttributeError if
\* self._client is None by now.
IgDumpSettings(t) ==
    /\ ig_pc[t] = "dump_settings"
    /\ IF ig_client = "Client"
       THEN /\ session_file' = TRUE
            /\ ig_logged_in' = TRUE
            /\ ig_exc' = ig_exc
            /\ ig_pc' = [ig_pc EXCEPT ![t] = "return client"]
       ELSE /\ UNCHANGED <<session_file, ig_logged_in>>
            /\ ig_exc' = [ig_exc EXCEPT ![t] = "other"]
            /\ ig_pc' = [ig_pc EXCEPT ![t] = "except Exception"]
    /\ UNCHANGED <<INSTAGRAPI_AVAILABLE, has_creds, ig_client,
                   ig_local, ig_ret, ig_login, ig_invalidated>>
    /\ UNCHANGED <<rlvars, exvars, dmvars, hvars>>

\* Lines 63 and 109: `client = self._get_client()`, that is self._client as
\* it is now.
IgReturnClient(t) ==
    /\ ig_pc[t] = "return client"
    /\ ig_local' = [ig_local EXCEPT ![t] = ig_client]
    /\ ig_pc' = [ig_pc EXCEPT ![t] = "api"]
    /\ UNCHANGED <<INSTAGRAPI_AVAILABLE, has_creds, session,
                   ig_exc, ig_ret, ig_login, ig_invalidated>>
    /\ UNCHANGED <<rlvars, exvars, dmvars, hvars>>

\* What escapes from lines 112-142 for an outcome of the client's calls.
Raised(outcome) ==
    IF outcome = "unknown media_type" THEN "ValueError"
    ELSE IF outcome \in {"login_required", "other"} THEN outcome
    ELSE "none"

\* Lines 177-187: the value returned for the files downloaded.
Returned(outcome) ==
    IF outcome = "empty album" THEN "failure"
    ELSE IF outcome = "video" THEN "video"
    ELSE "photo"

\* Lines 112-142 and 175-187: the calls on the local client, then the
\* return of the first file, or an exception (AttributeError if the local
\* client is None).
IgApi(t, outcome) ==
    /\ ig_pc[t] = "api"
    /\ LET exc == IF ig_local[t] # "Client" THEN "other" ELSE Raised(outcome)
       IN  IF exc = "none"
           THEN /\ ig_ret' = [ig_ret EXCEPT ![t] = Returned(outcome)]
                /\ ig_pc' = [ig_pc EXCEPT ![t] = "done"]
                /\ ig_exc' = ig_exc
           ELSE /\ ig_ret' = ig_ret
                /\ ig_exc' = [ig_exc EXCEPT ![t] = exc]
                /\ ig_pc' = [ig_pc EXCEPT ![t] =
                      IF exc = "ValueError"
                      THEN "except ValueError"
                      ELSE "except Exception"]
    /\ UNCHANGED <<INSTAGRAPI_AVAILABLE, has_creds, session,
                   ig_local, ig_login, ig_invalidated>>
    /\ UNCHANGED <<rlvars, exvars, dmvars, hvars>>

\* Lines 189-192: `except ValueError`, return (None, "unknown").
IgExceptValueError(t) ==
    /\ ig_pc[t] = "except ValueError"
    /\ ig_ret' = [ig_ret EXCEPT ![t] = "failure"]
    /\ ig_pc' = [ig_pc EXCEPT ![t] = "done"]
    /\ UNCHANGED <<INSTAGRAPI_AVAILABLE, has_creds, session,
                   ig_local, ig_exc, ig_login, ig_invalidated>>
    /\ UNCHANGED <<rlvars, exvars, dmvars, hvars>>

\* Line 198: `"login_required" in error_str.lower() or "LoginRequired" in
\* error_str`
LoginRequired(exc) == exc = "login_required"

\* Lines 194-203: `except Exception`: reset the session if it has expired,
\* else return (None, "unknown").
IgExceptException(t) ==
    /\ ig_pc[t] = "except Exception"
    /\ IF LoginRequired(ig_exc[t])
       THEN /\ ig_pc' = [ig_pc EXCEPT ![t] = "reset"]
            /\ ig_ret' = ig_ret
       ELSE /\ ig_pc' = [ig_pc EXCEPT ![t] = "done"]
            /\ ig_ret' = [ig_ret EXCEPT ![t] = "failure"]
    /\ UNCHANGED <<INSTAGRAPI_AVAILABLE, has_creds, session,
                   ig_local, ig_exc, ig_login, ig_invalidated>>
    /\ UNCHANGED <<rlvars, exvars, dmvars, hvars>>

\* reset() that keeps the logged-in flag.
ResetFlag_kept(flag) == flag

\* Line 147: `self._logged_in = False`
ResetFlag(flag) == FALSE

\* Lines 146-149: reset() clears the client and the flag and tests whether
\* the session file exists.
IgReset(t) ==
    /\ ig_pc[t] = "reset"
    /\ ig_client' = "None"
    /\ ig_logged_in' = ResetFlag(ig_logged_in)
    /\ ig_invalidated' = TRUE
    /\ ig_pc' = [ig_pc EXCEPT ![t] = IF session_file THEN "unlink" ELSE "reset done"]
    /\ UNCHANGED <<INSTAGRAPI_AVAILABLE, has_creds, session_file,
                   ig_local, ig_exc, ig_ret, ig_login>>
    /\ UNCHANGED <<rlvars, exvars, dmvars, hvars>>

\* Line 150: Path(session_file).unlink(); FileNotFoundError if the file is
\* gone by now, raised inside the except clause of line 194 and so out of
\* download_instagram_media.
IgUnlink(t) ==
    /\ ig_pc[t] = "unlink"
    /\ IF session_file
       THEN /\ session_file' = FALSE
            /\ ig_pc' = [ig_pc EXCEPT ![t] = "reset done"]
            /\ ig_ret' = ig_ret
       ELSE /\ session_file' = session_file
            /\ ig_pc' = [ig_pc EXCEPT ![t] = "done"]
            /\ ig_ret' = [ig_ret EXCEPT ![t] = "raised"]
    /\ UNCHANGED <<INSTAGRAPI_AVAILABLE, has_creds, ig_client, ig_logged_in,
                   ig_local, ig_exc, ig_login, ig_invalidated>>
    /\ UNCHANGED <<rlvars, exvars, dmvars, hvars>>

\* Lines 151 and 202-203: reset() returns; return (None, "unknown").
IgResetDone(t) ==
    /\ ig_pc[t] = "reset done"
    /\ ig_ret' = [ig_ret EXCEPT ![t] = "failure"]
    /\ ig_pc' = [ig_pc EXCEPT ![t] = "done"]
    /\ UNCHANGED <<INSTAGRAPI_AVAILABLE, has_creds, session,
                   ig_local, ig_exc, ig_login, ig_invalidated>>
    /\ UNCHANGED <<rlvars, exvars, dmvars, hvars>>

\* The caller takes the result.
IgReturn(t) ==
    /\ ig_pc[t] = "done"
    /\ ig_pc' = [ig_pc EXCEPT ![t] = "idle"]
    /\ UNCHANGED <<INSTAGRAPI_AVAILABLE, has_creds, session,
                   ig_local, ig_exc, ig_ret, ig_login, ig_invalidated>>
    /\ UNCHANGED <<rlvars, exvars, dmvars, hvars>>

\* One step of caller t.
IgStep(t) ==
    \/ IgCall(t)
    \/ IgGetClient(t)
    \/ IgCheckLogin(t)
    \/ IgLogin(t)
    \/ \E ok \in BOOLEAN : IgRestore(t, ok)
    \/ \E ok \in BOOLEAN : IgFreshLogin(t, ok)
    \/ IgDumpSettings(t)
    \/ IgReturnClient(t)
    \/ \E outcome \in ApiOutcomes : IgApi(t, outcome)
    \/ IgExceptValueError(t)
    \/ IgExceptException(t)
    \/ IgReset(t)
    \/ IgUnlink(t)
    \/ IgResetDone(t)
    \/ IgReturn(t)

\* The limiter at start-up: both dicts empty (bot.py:24-25).
RlInit ==
    /\ now = 0
    /\ user_timestamps = <<>>
    /\ user_cooldowns = <<>>
    /\ rl_user = 0
    /\ rl_last = [u \in Users |-> NoCall]
    /\ ncalls = [u \in Users |-> 0]
    /\ firstAt = [u \in Users |-> -1]
    /\ armedAt = [u \in Users |-> -1]
    /\ inQuota = [u \in Users |-> FALSE]
    /\ granted = [u \in Users |-> <<>>]

\* No text under classification.
ExIdle ==
    /\ text = <<>>
    /\ video_info = NotRun

\* No download in progress.
DmIdle ==
    /\ dm_pc = "idle"
    /\ dm_platform = "none"
    /\ dm_dir = {}
    /\ dm_primary = NoOutcome
    /\ dm_invoked = <<>>
    /\ dm_ret = NoResult

\* No update being handled.
HIdle ==
    /\ req = [i \in Handlers |-> NoRequest]
    /\ scratch = [i \in Handlers |-> "none"]
    /\ chat = [i \in Handlers |-> NoChat]

\* The callers at rest, the singleton as __init__ leaves it (lines 49-51).
IgCallersIdle ==
    /\ ig_client = "None"
    /\ ig_logged_in = FALSE
    /\ ig_pc = [t \in Callers |-> "idle"]
    /\ ig_local = [t \in Callers |-> "unset"]
    /\ ig_exc = [t \in Callers |-> "none"]
    /\ ig_ret = [t \in Callers |-> "none"]
    /\ ig_login = [t \in Callers |-> FALSE]
    /\ ig_invalidated = FALSE

\* instagrapi installed, credentials set, no session file yet.
IgIdle ==
    /\ IgCallersIdle
    /\ INSTAGRAPI_AVAILABLE = TRUE
    /\ has_creds = TRUE
    /\ session_file = FALSE

Init ==
    /\ RlInit
    /\ ExIdle
    /\ DmIdle
    /\ HIdle
    /\ IgIdle

\* One identity's requests, the clock read at every instant of Times.
Next ==
    \/ CheckRateLimit(1)
    \/ Tick

Spec == Init /\ [][Next]_vars

\* The instants of the two-identity runs: the start, a cooldown's expiry, the
\* window's edge and the second after it.
CoarseTimes == {t \in {0, 1800, 3600, 3601} : t <= MaxNow}

TickCoarse ==
    /\ \E t \in CoarseTimes : t > now /\ now' = t
    /\ UNCHANGED <<user_timestamps, user_cooldowns, hist, exvars, dmvars, hvars, igvars>>

\* Two identities whose requests interleave in every order.
NextUsers ==
    \/ \E u \in Users : CheckRateLimit(u)
    \/ TickCoarse

SpecUsers == Init /\ [][NextUsers]_vars

\* Every text of at most MaxTextLen tokens, classified once.
ExInit ==
    /\ RlInit
    /\ DmIdle
    /\ HIdle
    /\ IgIdle
    /\ text \in Texts
    /\ video_info = NotRun

SpecExtract == ExInit /\ [][Extract]_vars

\* Calls of download_media, one after the other.
NextDownload ==
    \/ \E p \in Platforms : DmStart(p)
    \/ DmYtDlp
    \/ DmPhotoFallback
    \/ DmReturn

SpecDownload == Init /\ [][NextDownload]_vars


\* The instants of the handler runs: the start, the window's edge and the
\* second after it.
HandlerTimes == {t \in {0, 3600, 3601} : t <= MaxNow}

TickHandlers ==
    /\ \E t \in HandlerTimes : t > now /\ now' = t
    /\ UNCHANGED <<user_timestamps, user_cooldowns, hist, exvars, dmvars, hvars, igvars>>

\* Updates of one user handled concurrently.
NextHandlers ==
    \/ \E i \in Handlers, t \in MessageTexts : HReceive(i, 1, t)
    \/ \E i \in Handlers, result \in DownloadResults : HDownloaded(i, result)
    \/ \E i \in Handlers, ok \in BOOLEAN : HReply(i, ok)
    \/ \E i \in Handlers : HSleep(i)
    \/ \E i \in Handlers, ok \in BOOLEAN : HDeleteNotice(i, ok)
    \/ \E i \in Handlers, ok \in BOOLEAN : HSend(i, ok)
    \/ \E i \in Handlers, ok \in BOOLEAN : HDeleteOriginal(i, ok)
    \/ \E i \in Handlers : HCancelled(i)
    \/ \E i \in Handlers : HIndicator(i)
    \/ TickHandlers

SpecHandlers == Init /\ [][NextHandlers]_vars

\* A process start: instagrapi installed or not, credentials set or not, a
\* session file left by an earlier process or none.
IgInit ==
    /\ RlInit
    /\ ExIdle
    /\ DmIdle
    /\ HIdle
    /\ IgCallersIdle
    /\ INSTAGRAPI_AVAILABLE \in BOOLEAN
    /\ has_creds \in BOOLEAN
    /\ session_file \in BOOLEAN

\* Calls of download_instagram_media one after the other: a caller moves
\* only while no other call is in progress.
NextSession ==
    \E t \in Callers :
        /\ \A u \in Callers \ {t} : ig_pc[u] = "idle"
        /\ IgStep(t)

SpecSession == IgInit /\ [][NextSession]_vars

\* Calls of download_instagram_media from two worker threads.
NextInstagram == \E t \in Callers : IgStep(t)

SpecInstagram == IgInit /\ [][NextInstagram]_vars

(***************************************************************************)
(* Properties of the rate limiter.                                         *)
(***************************************************************************)

\* A step is a call of check_rate_limit for u: the clock is not read again,
\* and the bookkeeping names u.  (A call that changes nothing at all, such as
\* a second blocked call in the same second, is a stuttering step.)
CallFor(u) == now' = now /\ rl_user' = u

\* The entries of identity v in both dicts are what they were.
SameEntries(v) ==
    /\ (v \in DOMAIN user_timestamps') = (v \in DOMAIN user_timestamps)
    /\ Get(user_timestamps', v, <<>>) = Get(user_timestamps, v, <<>>)
    /\ (v \in DOMAIN user_cooldowns') = (v \in DOMAIN user_cooldowns)
    /\ Get(user_cooldowns', v, 0) = Get(user_cooldowns, v, 0)

\* C1: from the empty state, while every call of an identity lies within
\* REQUEST_WINDOW seconds of its first one, calls 1..REQUEST_LIMIT are allowed
\* and call REQUEST_LIMIT+1 is blocked, reports COOLDOWN_TIME/60 minutes and
\* sets the cooldown expiry to the call's time plus COOLDOWN_TIME.
C1_QuotaThenBlocked ==
    \A u \in Users :
        (ncalls[u] >= 1 /\ rl_last[u].at - firstAt[u] <= REQUEST_WINDOW) =>
            /\ ncalls[u] <= REQUEST_LIMIT => rl_last[u].allowed
            /\ ncalls[u] = REQUEST_LIMIT + 1 =>
                   /\ ~rl_last[u].allowed
                   /\ 60 * rl_last[u].mins = COOLDOWN_TIME
                   /\ Get(user_cooldowns, u, 0) = rl_last[u].at + COOLDOWN_TIME

\* C1 witness: request REQUEST_LIMIT+1 was made later than the first one, still
\* inside its window, and was blocked.
C1_Witness ==
    \E u \in Users :
        /\ ncalls[u] = REQUEST_LIMIT + 1
        /\ rl_last[u].at > firstAt[u]
        /\ rl_last[u].at - firstAt[u] <= REQUEST_WINDOW
        /\ ~rl_last[u].allowed

\* C2 as stated: an identity blocked on request REQUEST_LIMIT+1 of its first
\* window is allowed again by any call made REQUEST_WINDOW seconds or more
\* after its first request, whenever the blocking request was made.
C2_Original ==
    [][\A u \in Users :
           (CallFor(u) /\ inQuota[u] /\ now >= firstAt[u] + REQUEST_WINDOW)
               => rl_last'[u].allowed]_vars

\* C2 as amended: such an identity is allowed again by a call made more than
\* REQUEST_WINDOW seconds after its first request, provided the cooldown armed
\* by its latest blocked request has expired by then.
C2_AllowedAfterWindowAndCooldown ==
    [][\A u \in Users :
           (/\ CallFor(u)
            /\ inQuota[u]
            /\ now > firstAt[u] + REQUEST_WINDOW
            /\ now >= Get(user_cooldowns, u, 0))
               => rl_last'[u].allowed]_vars

\* C2 witness: a blocked identity was allowed again by the first call past its
\* window, and that call came after a cooldown armed late in the window.
C2_Witness ==
    \E u \in Users :
        /\ ncalls[u] = REQUEST_LIMIT + 2
        /\ rl_last[u].allowed
        /\ rl_last[u].at > firstAt[u] + REQUEST_WINDOW
        /\ armedAt[u] > firstAt[u]
        /\ rl_last[u].at >= armedAt[u] + COOLDOWN_TIME

\* C3: a call made less than COOLDOWN_TIME seconds after the limit armed the
\* cooldown is blocked and leaves every timestamp queue and every cooldown
\* expiry as it was.
C3_CooldownLockout ==
    [][\A u \in Users :
           (CallFor(u) /\ armedAt[u] >= 0 /\ now < armedAt[u] + COOLDOWN_TIME)
               => /\ ~rl_last'[u].allowed
                  /\ user_timestamps' = user_timestamps
                  /\ user_cooldowns' = user_cooldowns]_vars

\* C3 witness: the latest call came strictly inside a cooldown and was blocked
\* without arming a new one.
C3_Witness ==
    \E u \in Users :
        /\ armedAt[u] >= 0
        /\ rl_last[u].at > armedAt[u]
        /\ rl_last[u].at < armedAt[u] + COOLDOWN_TIME
        /\ ~rl_last[u].allowed
        /\ Len(Get(user_timestamps, u, <<>>)) = REQUEST_LIMIT

\* Two successive calls of u, both blocked, both in the cooldown period armed
\* at armedAt[u], the second at a later time than the first.
SuccessiveBlocked(u) ==
    /\ CallFor(u)
    /\ armedAt[u] >= 0
    /\ armedAt'[u] = armedAt[u]
    /\ rl_last[u].at >= armedAt[u]
    /\ ~rl_last[u].allowed
    /\ ~rl_last'[u].allowed
    /\ rl_last[u].at < rl_last'[u].at

\* C4 as stated: within one cooldown period, a later blocked result reports
\* strictly fewer minutes than an earlier one.
C4_Original ==
    [][\A u \in Users :
           SuccessiveBlocked(u) => rl_last'[u].mins < rl_last[u].mins]_vars

\* C4 as amended: within one cooldown period, a later blocked result never
\* reports more minutes than an earlier one (stated for successive results;
\* any two follow by transitivity).
C4_MinutesNonIncreasing ==
    [][\A u \in Users :
           SuccessiveBlocked(u) => rl_last'[u].mins <= rl_last[u].mins]_vars

\* C4 witness: a blocked result inside a cooldown, at least a minute after it
\* was armed, reporting fewer minutes than the arming result did.
C4_Witness ==
    \E u \in Users :
        /\ armedAt[u] >= 0
        /\ rl_last[u].at >= armedAt[u] + 60
        /\ rl_last[u].at < armedAt[u] + COOLDOWN_TIME
        /\ ~rl_last[u].allowed
        /\ rl_last[u].mins >= 0
        /\ 60 * rl_last[u].mins < COOLDOWN_TIME

\* ceil(x / 60) for x >= 0
CeilMinutes(x) == (x + 59) \div 60

\* C5 as stated: a call made while now < cooldownExpiry reports
\* ceil((cooldownExpiry - now) / 60) minutes, hence at least 1.
C5_CeilMinutes ==
    \A u \in Users :
        (/\ rl_last[u].at >= 0
         /\ ~rl_last[u].allowed
         /\ rl_last[u].at > armedAt[u]
         /\ rl_last[u].at < Get(user_cooldowns, u, 0))
            => /\ rl_last[u].mins = CeilMinutes(Get(user_cooldowns, u, 0) - rl_last[u].at)
               /\ rl_last[u].mins >= 1

\* C6: a call for one identity leaves the entries of every other identity as
\* they were, and each identity's first REQUEST_LIMIT calls made within its own
\* window are allowed whatever the other identity has done in between.
C6_Isolation ==
    [][\A u \in Users :
           CallFor(u) =>
               /\ \A v \in Users \ {u} : SameEntries(v)
               /\ (ncalls'[u] <= REQUEST_LIMIT /\ now - firstAt'[u] <= REQUEST_WINDOW)
                      => rl_last'[u].allowed]_vars

\* C6 witness: two identities have each made REQUEST_LIMIT calls inside their
\* windows, interleaved (each started before the other finished), all allowed.
C6_Witness ==
    /\ \A u \in Users :
           /\ ncalls[u] = REQUEST_LIMIT
           /\ rl_last[u].allowed
           /\ rl_last[u].at - firstAt[u] <= REQUEST_WINDOW
           /\ Len(Get(user_timestamps, u, <<>>)) = REQUEST_LIMIT
    /\ \A u, v \in Users : firstAt[u] <= rl_last[v].at
    /\ \E u, v \in Users : firstAt[u] < firstAt[v] /\ firstAt[v] < rl_last[u].at

\* The Allowed results of u whose times lie in the WINDOW seconds from t on.
GrantedFrom(u, t) ==
    {j \in 1..Len(granted[u]) :
        granted[u][j] >= t /\ granted[u][j] <= t + REQUEST_WINDOW}

\* C7: however the handlers of one user's messages interleave on the loop,
\* every Allowed result has its own entry in the queue (the queue is the tail
\* of the Allowed times, none lost to a concurrent append), and no span of
\* REQUEST_WINDOW seconds holds more than REQUEST_LIMIT Allowed results.
C7_QuotaUnderInterleaving ==
    \A u \in Users :
        /\ LET q == Get(user_timestamps, u, <<>>)
               n == Len(granted[u])
           IN  Len(q) <= n /\ q = SubSeq(granted[u], n - Len(q) + 1, n)
        /\ \A k \in 1..Len(granted[u]) :
               Cardinality(GrantedFrom(u, granted[u][k])) <= REQUEST_LIMIT

\* C7 witness: while one handler of a user awaits its download, another
\* handler of the same user has been refused in the same second, the quota
\* being used up.
C7_Witness ==
    \E i, j \in Handlers :
        /\ req[i].pc = "download"
        /\ req[j].pc = "reply"
        /\ req[j].notice = "rate limit"
        /\ req[i].user_id = req[j].user_id
        /\ Cardinality(GrantedFrom(req[i].user_id, now)) = REQUEST_LIMIT
        /\ rl_last[req[j].user_id].at = now

(***************************************************************************)
(* Properties of extract_video_url.                                        *)
(***************************************************************************)

\* A URL of the platform whose domain token is dom begins at position i of t.
UrlAt(dom, t, i) ==
    /\ i + 2 <= Len(t)
    /\ t[i] = "h"
    /\ t[i + 1] = dom
    /\ t[i + 2] \in WordTokens

HasUrl(dom, t) == \E i \in 1..Len(t) : UrlAt(dom, t, i)

\* The tag of the first platform, in the order instagram, tiktok, facebook,
\* of which the text holds a URL anywhere; "" when it holds none.
FirstPlatform(t) ==
    IF HasUrl("ig", t) THEN "instagram"
    ELSE IF HasUrl("tt", t) THEN "tiktok"
    ELSE IF HasUrl("fb", t) THEN "facebook"
    ELSE ""

PatternOf(platform) ==
    IF platform = "instagram" THEN INSTAGRAM_URL_PATTERN
    ELSE IF platform = "tiktok" THEN TIKTOK_URL_PATTERN
    ELSE FACEBOOK_URL_PATTERN

\* C8: extract_video_url returns None exactly for the texts that hold no URL
\* of any platform; otherwise it returns the tag of the first platform in the
\* order instagram, tiktok, facebook that has a URL anywhere in the text,
\* wherever the URLs of the other platforms lie, with that pattern's match,
\* which is a piece of the text beginning with that platform's scheme and
\* domain.
C8_FirstPatternInPriorityOrder ==
    video_info # NotRun =>
        IF FirstPlatform(text) = ""
        THEN video_info = None
        ELSE /\ Len(video_info) = 2
             /\ video_info[2] = FirstPlatform(text)
             /\ video_info[1] = search(PatternOf(video_info[2]), text)
             /\ LET url == video_info[1]
                IN  /\ UrlAt(PatternOf(video_info[2]).domain, url, 1)
                    /\ \E i \in 1..Len(text) :
                           SubSeq(text, i, i + Len(url) - 1) = url

\* C8 witness: a text with a TikTok URL and, after it, an Instagram URL was
\* classified as instagram.
C8_Witness ==
    /\ video_info # NotRun
    /\ Len(video_info) = 2
    /\ video_info[2] = "instagram"
    /\ \E i, j \in 1..Len(text) :
           i < j /\ UrlAt("tt", text, i) /\ UrlAt("ig", text, j)

(***************************************************************************)
(* Properties of the download chain.                                       *)
(***************************************************************************)

\* ydl.extract_info ended with the DownloadError that reports a post without
\* video.
PrimaryReportedNoVideo ==
    /\ dm_primary.kind = "DownloadError"
    /\ dm_primary.msg = "There is no video in this post"

\* C9: once the yt-dlp attempt has failed reporting no video, the photo
\* fallback is what runs next, and by the return it has run exactly once,
\* right after yt-dlp; in a call whose yt-dlp attempt ended any other way the
\* photo fallback is not invoked at all.
C9_PhotoFallbackNext ==
    /\ dm_pc = "photo" => PrimaryReportedNoVideo /\ dm_invoked = <<"yt-dlp">>
    /\ (dm_pc \in {"done", "idle"} /\ PrimaryReportedNoVideo)
           => dm_invoked = <<"yt-dlp", "photo fallback">>
    /\ (\E i \in 1..Len(dm_invoked) : dm_invoked[i] = "photo fallback")
           => PrimaryReportedNoVideo

\* C9 witness: a call whose yt-dlp attempt reported no video has returned
\* the photo the fallback found.
C9_Witness ==
    /\ dm_pc = "done"
    /\ PrimaryReportedNoVideo
    /\ dm_invoked = <<"yt-dlp", "photo fallback">>
    /\ dm_ret.media_type = "photo"

\* C10 as stated, for an Instagram link: when the yt-dlp attempt fails with a
\* DownloadError other than the no-video one, the call returns Failure only
\* after the photo backend and the authenticated session client have each
\* been tried once, in that order.
C10_ChainExhausted ==
    (/\ dm_pc = "done"
     /\ dm_platform = "instagram"
     /\ dm_primary.kind = "DownloadError"
     /\ ~PrimaryReportedNoVideo)
        => dm_invoked = <<"yt-dlp", "photo fallback", "instagrapi">>

\* C11 as stated: when download_media returns a path, the file it names is in
\* the scratch directory, is not empty and is no larger than 50 MiB.
C11_SuccessWithinCeiling ==
    (dm_pc = "done" /\ dm_ret.path # NoFile)
        => (dm_ret.path \in dm_dir /\ dm_ret.path.size = "ok")

\* The files of the scratch directory with a recognized suffix.
Recognized(dir) == {f \in dir : f.ext \in valid_exts}

\* C13: when ydl.extract_info returned an info dict, the returned path names
\* a file of the directory with a recognized suffix, the kind is photo for a
\* photo suffix and video for a video suffix, and a directory without a
\* recognized file gives (None, unknown); in every return of download_media
\* the path is None exactly when the kind is unknown.
C13_MediaResolution ==
    /\ (dm_pc = "done" /\ dm_primary.kind = "info") =>
          /\ dm_ret.path # NoFile =>
                /\ dm_ret.path \in Recognized(dm_dir)
                /\ dm_ret.path.ext \in valid_photo_exts => dm_ret.media_type = "photo"
                /\ dm_ret.path.ext \in valid_video_exts => dm_ret.media_type = "video"
          /\ Recognized(dm_dir) = {} <=> dm_ret = Failure
    /\ dm_pc = "done" =>
          /\ dm_ret.media_type \in {"photo", "video", "unknown"}
          /\ dm_ret.path = NoFile <=> dm_ret.media_type = "unknown"

\* C13 witness: yt-dlp returned an info dict and left a video and a photo,
\* neither named after the post id; the second scan picked the photo.
C13_Witness ==
    /\ dm_pc = "done"
    /\ dm_primary.kind = "info"
    /\ \E f, g \in dm_dir : f.ext = ".mp4" /\ g.ext = ".jpg" /\ dm_ret.path = g
    /\ dm_ret.path.stem = "other"
    /\ dm_ret.media_type = "photo"

(***************************************************************************)
(* Invariants of the rate-limit state.                                     *)
(***************************************************************************)

\* q is in ascending order.
Sorted(q) == \A i, j \in 1..Len(q) : i < j => q[i] <= q[j]

\* C19: in every reachable state the timestamp queue of every identity is in
\* ascending order (the clock of the model never runs backwards).
C19_QueuesSorted ==
    \A u \in DOMAIN user_timestamps : Sorted(user_timestamps[u])

\* C19 witness: both identities hold a queue of requests made at different
\* times, one of them with its oldest request already evicted from the front.
C19_Witness ==
    /\ \A u \in Users :
           /\ u \in DOMAIN user_timestamps
           /\ Len(user_timestamps[u]) >= 2
           /\ user_timestamps[u][1] < user_timestamps[u][Len(user_timestamps[u])]
    /\ \E u \in Users : user_timestamps[u][1] > firstAt[u]

\* The queue of u as line 326 sees it: after the eviction at the current time.
QueueAfterEviction(u) == EvictExpired(Get(user_timestamps, u, <<>>), now)

\* C20: a step changes the cooldown expiry of u only if it is a call for u
\* that finds at least REQUEST_LIMIT timestamps left after eviction; no step
\* lowers it; and a call for u returns Blocked exactly when the time of the
\* call is before the expiry that the call leaves behind.
C20_CooldownExpiry ==
    [][\A u \in Users :
           /\ Get(user_cooldowns', u, 0) # Get(user_cooldowns, u, 0)
                  => /\ CallFor(u)
                     /\ Len(QueueAfterEviction(u)) >= REQUEST_LIMIT
           /\ Get(user_cooldowns', u, 0) >= Get(user_cooldowns, u, 0)
           /\ CallFor(u)
                  => (~rl_last'[u].allowed <=> now < Get(user_cooldowns', u, 0))]_vars

\* C20 witness: an identity blocked on request REQUEST_LIMIT+1 of its first
\* window has, after that cooldown ran out, armed a later one with the call
\* just made.
C20_Witness ==
    \E u \in Users :
        /\ inQuota[u]
        /\ ncalls[u] = REQUEST_LIMIT + 2
        /\ ~rl_last[u].allowed
        /\ rl_last[u].at = armedAt[u]
        /\ armedAt[u] >= firstAt[u] + COOLDOWN_TIME
        /\ Get(user_cooldowns, u, 0) = armedAt[u] + COOLDOWN_TIME

(***************************************************************************)
(* Properties of handle_message.                                           *)
(***************************************************************************)

\* The pcs at which a failure notice is on its way: reply_text, the sleep,
\* the deletion of the notice.
NoticePcs == {"reply", "sleep", "delete notice"}

\* C12: a coroutine that holds a file of more than 50 MiB is sending the
\* too-large notice, and nothing else: it is not at send_photo or send_video,
\* it has not called them, and its notice is not the unavailable one; a
\* request that got the too-large notice never had a send attempt and keeps
\* its original message.
C12_OversizeNeverSent ==
    \A i \in Handlers :
        /\ req[i].pc \in {"send", "delete original"} => req[i].media.path.size # "over"
        /\ req[i].media.path.size = "over" =>
               /\ req[i].pc \in NoticePcs
               /\ req[i].notice = "too large"
               /\ chat[i].notice = "too large"
               /\ chat[i].send = "none"
        /\ chat[i].notice = "too large" =>
               /\ chat[i].send = "none"
               /\ chat[i].original = "kept"

\* C12 witness: download_media handed back a video of more than 50 MiB and the
\* too-large notice has been delivered.
C12_Witness ==
    \E i \in Handlers :
        /\ req[i].pc = "sleep"
        /\ req[i].media.path.size = "over"
        /\ req[i].media.media_type = "video"
        /\ chat[i].notice = "too large"

C15_OriginalKeptUnlessRelayed ==
    \A i \in Handlers :
        /\ req[i].pc = "delete original" => chat[i].send = "ok"
        /\ chat[i].original # "kept" => chat[i].send = "ok"
        /\ chat[i].send = "failed" => chat[i].original = "kept"
        /\ chat[i].notice # "none" => chat[i].original = "kept"
        /\ chat[i].original = "delete failed" =>
               /\ req[i].pc = "idle"
               /\ chat[i].notice = "none"

\* C15 witness: after a completed send, one request has deleted its original
\* and another has failed to, and ended without a notice.
C15_Witness ==
    \E i, j \in Handlers :
        /\ chat[i].send = "ok" /\ chat[i].original = "deleted"
        /\ chat[j].send = "ok" /\ chat[j].original = "delete failed"
        /\ chat[j].notice = "none"
        /\ req[j].pc = "idle"

\* C21: a coroutine that has left handle_message, by whichever exit, has no
\* indicator task left that was created and not cancelled, and no indicator
\* action can be sent for it; while the handler runs, the only task not
\* cancelled is the one typing_task names (the first is cancelled when the
\* second is created).
C21_IndicatorCancelled ==
    \A i \in Handlers :
        /\ req[i].live \subseteq {req[i].task}
        /\ req[i].pc = "idle" =>
               /\ req[i].live = {}
               /\ ~ENABLED HIndicator(i)

\* C21 witness: one request has ended after the unavailable notice, with its
\* first indicator task only, another after a relay whose deletion of the
\* original raised, with both tasks created; neither has a task left.
C21_Witness ==
    \E i, j \in Handlers :
        /\ req[i].pc = "idle" /\ req[j].pc = "idle"
        /\ chat[i].rate = "allowed" /\ chat[i].notice = "unavailable"
        /\ chat[j].send = "ok" /\ chat[j].original = "delete failed"
        /\ req[i].live = {} /\ req[j].live = {}

\* The notices sent because the download failed or the file is too large.
DownloadFailureNotices == {"unavailable", "too large"}

\* C22 as stated: once download_media has returned a failure or a file of
\* more than 50 MiB, no indicator action goes out for that request: none
\* while the notice is sent, displayed and deleted.
C22_NoIndicatorAfterFailure ==
    \A i \in Handlers :
        req[i].notice \in DownloadFailureNotices =>
            /\ ~req[i].indicated
            /\ ~ENABLED HIndicator(i)

\* What holds of a request in every state, C23: a download in flight, a
\* scratch directory on storage or an indicator task not cancelled belong to a
\* request with a classified URL that check_rate_limit allowed; a message
\* without a URL has sent nothing and has no directory; a refused request
\* has sent the rate-limit notice and nothing else, and has no directory, no
\* task and no download.
StartedOnlyIfAllowed(i) ==
    /\ (\/ req[i].pc = "download"
        \/ scratch[i] = "exists"
        \/ req[i].live # {}
        \/ req[i].typing_task # "none")
           => /\ chat[i].url
              /\ chat[i].rate = "allowed"
    /\ ~chat[i].url =>
           /\ chat[i] = NoChat
           /\ scratch[i] = "none"
           /\ req[i] = NoRequest
    /\ chat[i].rate = "blocked" =>
           /\ chat[i].notice = "rate limit"
           /\ chat[i].send = "none"
           /\ chat[i].original = "kept"
           /\ scratch[i] = "none"
           /\ req[i].live = {}
           /\ req[i].typing_task = "none"
           /\ req[i].pc \in NoticePcs \cup {"idle"}

\* C23: the above holds after every step; the step that starts a download is
\* a call of check_rate_limit for the request's user that returned Allowed at
\* this instant; and the handling of a message without a URL leaves the
\* queues and the cooldowns of the rate limiter as they were.
C23_DownloadOnlyWhenAllowed ==
    [][\A i \in Handlers :
           /\ StartedOnlyIfAllowed(i)'
           /\ (req[i].pc = "idle" /\ req'[i].pc = "download") =>
                  /\ CallFor(req'[i].user_id)
                  /\ rl_last'[req'[i].user_id].allowed
                  /\ rl_last'[req'[i].user_id].at = now
                  /\ chat'[i].url
                  /\ scratch'[i] = "exists"
           /\ (req[i].pc = "idle" /\ chat'[i] # chat[i] /\ ~chat'[i].url) =>
                  /\ user_timestamps' = user_timestamps
                  /\ user_cooldowns' = user_cooldowns
                  /\ req'[i].pc = "idle"]_vars

\* C23 witness: one request is downloading, having been allowed, while
\* another, refused, has its rate-limit notice on display and has no
\* directory.
C23_Witness ==
    \E i, j \in Handlers :
        /\ req[i].pc = "download"
        /\ chat[i].rate = "allowed"
        /\ scratch[i] = "exists"
        /\ req[j].pc = "sleep"
        /\ chat[j].rate = "blocked"
        /\ chat[j].notice = "rate limit"
        /\ scratch[j] = "none"

C16_NoExceptionEscapes ==
    \A t \in Callers : ig_ret[t] # "raised"

\* Caller t has an exception in flight that is not the expired-session one.
OtherFailure(t) ==
    /\ ig_exc[t] \in {"ValueError", "other"}
    /\ ig_pc[t] \notin {"idle", "done"}

InSession(t) ==
    ig_pc[t] \in {"_get_client", "check login", "_login", "restore", "fresh login",
                  "dump_settings", "return client", "api", "reset", "unlink",
                  "reset done"}

\* C18 as stated: at most one caller at a time is inside the login, download
\* or reset of the shared client.
C18_MutualExclusion ==
    Cardinality({t \in Callers : InSession(t)}) <= 1

\* max(a, b)
MaxOf(a, b) == IF a >= b THEN a ELSE b

\* C25: a call for u made more than max(REQUEST_WINDOW, COOLDOWN_TIME)
\* seconds after the previous call for u is allowed and leaves the queue of u
\* holding the time of that call alone; a call made when an earlier cooldown
\* of u is over but REQUEST_LIMIT timestamps are still inside the window is
\* blocked and arms the cooldown anew.
C25_NoPermanentLockout ==
    [][\A u \in Users :
           CallFor(u) =>
               /\ (/\ rl_last[u].at >= 0
                   /\ now - rl_last[u].at > MaxOf(REQUEST_WINDOW, COOLDOWN_TIME))
                      => /\ rl_last'[u].allowed
                         /\ Get(user_timestamps', u, <<>>) = <<now>>
               /\ (/\ armedAt[u] >= 0
                   /\ now >= Get(user_cooldowns, u, 0)
                   /\ Len(QueueAfterEviction(u)) >= REQUEST_LIMIT)
                      => /\ ~rl_last'[u].allowed
                         /\ armedAt'[u] = now
                         /\ Get(user_cooldowns', u, 0) = now + COOLDOWN_TIME]_vars

\* C25 witness: an identity that had been blocked, and blocked again by the
\* first call after its cooldown, was left alone for more than the window and
\* is allowed, its queue holding that one request.
C25_Witness ==
    \E u \in Users :
        /\ armedAt[u] >= firstAt[u] + COOLDOWN_TIME
        /\ armedAt[u] > firstAt[u] + 1
        /\ rl_last[u].prev >= armedAt[u]
        /\ rl_last[u].at - rl_last[u].prev > MaxOf(REQUEST_WINDOW, COOLDOWN_TIME)
        /\ rl_last[u].allowed
        /\ user_timestamps[u] = <<rl_last[u].at>>

\* C26: after every step the queue of every identity holds at most
\* REQUEST_LIMIT timestamps; a call that returns Blocked leaves the queue of
\* the identity as it was or as the eviction shortens it, and a call that
\* returns Allowed leaves the evicted queue with the time of the call added.
C26_QueueBounded ==
    [][\A u \in Users :
           /\ Len(Get(user_timestamps', u, <<>>)) <= REQUEST_LIMIT
           /\ CallFor(u) =>
                  IF rl_last'[u].allowed
                  THEN Get(user_timestamps', u, <<>>) = Append(QueueAfterEviction(u), now)
                  ELSE Get(user_timestamps', u, <<>>)
                           \in {Get(user_timestamps, u, <<>>), QueueAfterEviction(u)}]_vars

\* C26 witness: a request was blocked by the limit on a queue that has lost
\* its oldest timestamps to eviction and holds REQUEST_LIMIT again.
C26_Witness ==
    \E u \in Users :
        /\ ~rl_last[u].allowed
        /\ rl_last[u].at = armedAt[u]
        /\ Len(Get(user_timestamps, u, <<>>)) = REQUEST_LIMIT
        /\ user_timestamps[u][1] > firstAt[u]

====
